---- MODULE Spec2Model ----
(***************************************************************************)
(* Model of scripts/apply_patches.py: the patch canonicaliser              *)
(* fix_patch_content and the batch driver apply_patches.                   *)
(*                                                                         *)
(* A text is a sequence of characters.  The characters that matter to the  *)
(* code are '-', '+', '@', the line terminators CR and LF, one further     *)
(* line boundary recognised by str.splitlines (form feed, FF), and an      *)
(* ordinary character "a".                                                 *)
(***************************************************************************)
EXTENDS Integers, Sequences, FiniteSets, TLC

CR == "CR"
LF == "LF"
FF == "FF"
\* the byte-order mark and a byte sequence that is not valid UTF-8
BOM == "BOM"
BAD == "BAD"

VARIABLES
    \* ---- the file system and the external world
    dir_exists,      \* ./patches exists
    disk,            \* the entries of ./patches: <<stem, extension>>
    text,            \* stem -> raw content of <stem>.patch
    scratch_text,    \* stem -> content of <stem>.tmp
    running,         \* git processes started and not yet waited for
    \* ---- apply_patches
    pc,              \* position in apply_patches
    patch_files,     \* the sorted list
    i,               \* index of patch_file in patch_files
    patch_content,   \* local patch_content
    temp_patch,      \* local temp_patch (0: not bound yet)
    result,          \* result.returncode (-1: not bound yet)
    exc,             \* the exception being handled
    rc,              \* value returned by apply_patches (-1: none yet)
    log,             \* history of the operations on artifacts
    \* ---- one call of fix_patch_content
    fx_pc, fx_content, fx_lines, fx_header_lines, fx_diff_lines, fx_result,
    fx_normalized,   \* content after line 6
    fx_second        \* result of a second call, made on fx_result

batch_vars ==
    <<dir_exists, disk, text, scratch_text, running, pc, patch_files, i,
      patch_content, temp_patch, result, exc, rc, log>>
fx_vars ==
    <<fx_pc, fx_content, fx_lines, fx_header_lines, fx_diff_lines, fx_result,
      fx_normalized, fx_second>>
vars == <<batch_vars, fx_vars>>

\* ---------------------------------------------------------------- bounds
MaxTokens == 5
MaxFiles == 3

Stems == 1..MaxFiles

\* ------------------------------------------------------------ input texts
Tokens ==
    { <<"-", "-", "-">>, <<"+", "+", "+">>, <<"@", "@">>, <<"a">>, <<"-">>,
      <<CR>>, <<LF>>, <<FF>> }

RECURSIVE Flatten(_)
Flatten(ts) ==
    IF ts = <<>> THEN <<>> ELSE Head(ts) \o Flatten(Tail(ts))

Texts ==
    { Flatten(ts) : ts \in UNION { [1..n -> Tokens] : n \in 0..MaxTokens } }

\* ------------------------------------------------- fix_patch_content (pure)
\* mutant: CR LF pairs are left alone by the first replace
ReplaceCRLFKeep(s) == s

\* str.replace('\r\n', '\n'): left-to-right, non-overlapping
RECURSIVE ReplaceCRLF(_)
ReplaceCRLF(s) ==
    IF s = <<>> THEN <<>>
    ELSE IF Len(s) >= 2 /\ s[1] = CR /\ s[2] = LF
         THEN <<LF>> \o ReplaceCRLF(SubSeq(s, 3, Len(s)))
         ELSE <<s[1]>> \o ReplaceCRLF(Tail(s))

\* str.replace('\r', '\n')
ReplaceCR(s) ==
    [k \in 1..Len(s) |-> IF s[k] = CR THEN LF ELSE s[k]]

\* the line boundaries of str.splitlines that occur in the alphabet
LineBoundaries == {LF, CR, FF}

\* str.splitlines(): boundaries removed, CR LF is one boundary, no empty
\* last line after a final boundary, [] for the empty text
RECURSIVE SplitFrom(_, _)
SplitFrom(s, cur) ==
    IF s = <<>> THEN (IF cur = <<>> THEN <<>> ELSE <<cur>>)
    ELSE IF Len(s) >= 2 /\ s[1] = CR /\ s[2] = LF
         THEN <<cur>> \o SplitFrom(SubSeq(s, 3, Len(s)), <<>>)
    ELSE IF s[1] \in LineBoundaries
         THEN <<cur>> \o SplitFrom(Tail(s), <<>>)
    ELSE SplitFrom(Tail(s), Append(cur, s[1]))

\* mutant: as str.split('\n'), an empty last line follows a final boundary
splitKeepsLast(s) ==
    IF s # <<>> /\ s[Len(s)] \in LineBoundaries
    THEN SplitFrom(s, <<>>) \o << <<>> >>
    ELSE SplitFrom(s, <<>>)

splitlines(s) == SplitFrom(s, <<>>)

\* str.startswith
startswith(line, prefix) ==
    /\ Len(line) >= Len(prefix)
    /\ SubSeq(line, 1, Len(prefix)) = prefix

\* the locals before the loop
LoopInit == [header_lines |-> <<>>, diff_lines |-> <<>>, in_header |-> TRUE]

\* mutant: the header test is made whatever in_header says
LoopBodyRescan(st, line) ==
    IF startswith(line, <<"-", "-", "-">>) \/ startswith(line, <<"+", "+", "+">>)
    THEN [st EXCEPT !.header_lines = Append(@, line)]
    ELSE IF st.in_header
         THEN IF startswith(line, <<"@", "@">>)
              THEN [st EXCEPT !.in_header = FALSE,
                              !.diff_lines = Append(@, line)]
              ELSE st
         ELSE [st EXCEPT !.diff_lines = Append(@, line)]

\* mutant: a line that is neither a header nor a hunk line is kept
LoopBodyKeep(st, line) ==
    IF st.in_header
    THEN IF startswith(line, <<"-", "-", "-">>) \/ startswith(line, <<"+", "+", "+">>)
         THEN [st EXCEPT !.header_lines = Append(@, line)]
         ELSE IF startswith(line, <<"@", "@">>)
              THEN [st EXCEPT !.in_header = FALSE,
                              !.diff_lines = Append(@, line)]
              ELSE [st EXCEPT !.header_lines = Append(@, line)]
    ELSE [st EXCEPT !.diff_lines = Append(@, line)]

\* one iteration of "for line in lines"
LoopBody(st, line) ==
    IF st.in_header
    THEN IF startswith(line, <<"-", "-", "-">>) \/ startswith(line, <<"+", "+", "+">>)
         THEN [st EXCEPT !.header_lines = Append(@, line)]
         ELSE IF startswith(line, <<"@", "@">>)
              THEN [st EXCEPT !.in_header = FALSE,
                              !.diff_lines = Append(@, line)]
              ELSE st
    ELSE [st EXCEPT !.diff_lines = Append(@, line)]

RECURSIVE ForLines(_, _)
ForLines(st, lines) ==
    IF lines = <<>> THEN st
    ELSE ForLines(LoopBody(st, Head(lines)), Tail(lines))

\* '\n'.join(lines)
RECURSIVE join(_, _)
join(sep, lines) ==
    IF lines = <<>> THEN <<>>
    ELSE IF Len(lines) = 1 THEN lines[1]
    ELSE lines[1] \o <<sep>> \o join(sep, Tail(lines))

\* mutant: no LF is appended
fix_patch_content_NoNewline(content) ==
    LET lines == splitlines(ReplaceCR(ReplaceCRLF(content)))
        st == ForLines(LoopInit, lines)
    IN  join(LF, st.header_lines \o st.diff_lines)

\* mutant: the body is put before the header
fix_patch_content_BodyFirst(content) ==
    LET lines == splitlines(ReplaceCR(ReplaceCRLF(content)))
        st == ForLines(LoopInit, lines)
    IN  join(LF, st.diff_lines \o st.header_lines) \o <<LF>>

fix_patch_content(content) ==
    LET lines == splitlines(ReplaceCR(ReplaceCRLF(content)))
        st == ForLines(LoopInit, lines)
    IN  join(LF, st.header_lines \o st.diff_lines) \o <<LF>>

\* --------------------------------------------- one call of the pure function
FxIdle ==
    /\ fx_pc = "idle"
    /\ fx_content = <<>>
    /\ fx_lines = <<>>
    /\ fx_header_lines = <<>>
    /\ fx_diff_lines = <<>>
    /\ fx_result = <<>>
    /\ fx_normalized = <<>>
    /\ fx_second = <<>>

FxCall ==
    /\ fx_pc = "call"
    /\ LET lines == splitlines(ReplaceCR(ReplaceCRLF(fx_content)))
           st == ForLines(LoopInit, lines)
       IN  /\ fx_lines' = lines
           /\ fx_header_lines' = st.header_lines
           /\ fx_diff_lines' = st.diff_lines
    /\ fx_normalized' = ReplaceCR(ReplaceCRLF(fx_content))
    /\ fx_result' = fix_patch_content(fx_content)
    /\ fx_pc' = "return"
    /\ UNCHANGED <<fx_content, fx_second, batch_vars>>

\* a second call, on the text the first call returned
FxCallAgain ==
    /\ fx_pc = "return"
    /\ fx_second' = fix_patch_content(fx_result)
    /\ fx_pc' = "return2"
    /\ UNCHANGED <<fx_content, fx_lines, fx_header_lines, fx_diff_lines,
                   fx_result, fx_normalized, batch_vars>>

\* ------------------------------------------------------------ apply_patches
\* raw contents a patch file may have
SampleCRLF ==
    <<BOM, "a", CR, LF, "-", "-", "-", CR, LF, "+", "+", "+", CR, LF,
      "@", "@", CR, LF, "+", "a", CR, LF>>
SamplePlain == <<"-", "-", "-", LF, "@", "@", LF, "-", "a">>
SampleBad == <<"@", "@", LF, BAD>>

PRIMARY == "--whitespace=fix"
FALLBACK == "--ignore-whitespace"

Event(op, file, mode, res) ==
    [op |-> op, file |-> file, mode |-> mode, res |-> res]

\* decoding with encoding='utf-8-sig' succeeds
Decodable(bytes) == \A k \in 1..Len(bytes) : bytes[k] # BAD

\* f.read() of a file opened with open(path, 'r', encoding='utf-8-sig'):
\* a leading byte-order mark is dropped, newlines are translated
f_read(bytes) ==
    LET chars == IF bytes # <<>> /\ bytes[1] = BOM THEN Tail(bytes) ELSE bytes
    IN  ReplaceCR(ReplaceCRLF(chars))

\* mutant: descending order
RECURSIVE sortedDescending(_)
sortedDescending(S) ==
    IF S = {} THEN <<>>
    ELSE LET m == CHOOSE x \in S : \A y \in S : y <= x
         IN  <<m>> \o sortedDescending(S \ {m})

\* sorted(...)
RECURSIVE sorted(_)
sorted(S) ==
    IF S = {} THEN <<>>
    ELSE LET m == CHOOSE x \in S : \A y \in S : x <= y
         IN  <<m>> \o sorted(S \ {m})

\* mutant: every entry of the directory is listed
globAll(entries) == { e[1] : e \in entries }

\* patches_dir.glob('*.patch')
glob(entries) == { e[1] : e \in { d \in entries : d[2] = "patch" } }

patch_file == patch_files[i]

BatchIdle ==
    /\ dir_exists = FALSE
    /\ disk = {}
    /\ text = [s \in Stems |-> <<>>]
    /\ scratch_text = [s \in Stems |-> <<>>]
    /\ running = {}
    /\ pc = "idle"
    /\ patch_files = <<>>
    /\ i = 0
    /\ patch_content = <<>>
    /\ temp_patch = 0
    /\ result = -1
    /\ exc = "none"
    /\ rc = -1
    /\ log = <<>>

\* the state when apply_patches is called: the directory is missing, or it
\* holds any mix of .patch files and other files, and no scratch file
BatchInit ==
    /\ dir_exists \in BOOLEAN
    /\ \E kind \in [Stems -> {"none", "txt", "crlf", "plain", "bad"}] :
          /\ disk = IF dir_exists
                    THEN { <<s, IF kind[s] = "txt" THEN "txt" ELSE "patch">> :
                             s \in { t \in Stems : kind[t] # "none" } }
                    ELSE {}
          /\ text = [s \in Stems |->
                        IF ~dir_exists THEN SamplePlain
                        ELSE IF kind[s] = "crlf" THEN SampleCRLF
                        ELSE IF kind[s] = "bad" THEN SampleBad
                        ELSE SamplePlain]
    /\ scratch_text = [s \in Stems |-> <<>>]
    /\ running = {}
    /\ pc = "start"
    /\ patch_files = <<>>
    /\ i = 0
    /\ patch_content = <<>>
    /\ temp_patch = 0
    /\ result = -1
    /\ exc = "none"
    /\ rc = -1
    /\ log = <<>>

\* return <value>
Return(value) ==
    /\ rc' = value
    /\ pc' = "done"

\* raise <exception> inside the try block
Raise(e) ==
    /\ exc' = e
    /\ pc' = "except"

\* mutant: a missing directory is not checked
CheckDirSkipped ==
    /\ pc = "start"
    /\ pc' = "glob"
    /\ UNCHANGED <<dir_exists, disk, text, scratch_text, running, patch_files,
                   i, patch_content, temp_patch, result, exc, rc, log, fx_vars>>

CheckDir ==
    /\ pc = "start"
    /\ IF ~dir_exists
       THEN Return(1)
       ELSE /\ pc' = "glob"
            /\ rc' = rc
    /\ UNCHANGED <<dir_exists, disk, text, scratch_text, running, patch_files,
                   i, patch_content, temp_patch, result, exc, log, fx_vars>>

\* mutant: the listing is not filtered by extension
GlobUnfiltered ==
    /\ pc = "glob"
    /\ patch_files' = sorted(globAll(disk))
    /\ log' = Append(log, Event("glob", 0, "-", "ok"))
    /\ IF patch_files' = <<>>
       THEN /\ Return(0)
            /\ i' = i
       ELSE /\ i' = 1
            /\ pc' = "for"
            /\ rc' = rc
    /\ UNCHANGED <<dir_exists, disk, text, scratch_text, running,
                   patch_content, temp_patch, result, exc, fx_vars>>

Glob ==
    /\ pc = "glob"
    /\ patch_files' = sorted(glob(disk))
    /\ log' = Append(log, Event("glob", 0, "-", "ok"))
    /\ IF patch_files' = <<>>
       THEN /\ Return(0)
            /\ i' = i
       ELSE /\ i' = 1
            /\ pc' = "for"
            /\ rc' = rc
    /\ UNCHANGED <<dir_exists, disk, text, scratch_text, running,
                   patch_content, temp_patch, result, exc, fx_vars>>

\* the head of "for patch_file in patch_files", and "return 0" after it
ForNext ==
    /\ pc = "for"
    /\ IF i <= Len(patch_files)
       THEN /\ pc' = "read"
            /\ rc' = rc
       ELSE Return(0)
    /\ UNCHANGED <<dir_exists, disk, text, scratch_text, running, patch_files,
                   i, patch_content, temp_patch, result, exc, log, fx_vars>>

\* mutant: an artifact that cannot be read is skipped
ReadSkipsBad ==
    /\ pc = "read"
    /\ \/ /\ Decodable(text[patch_file])
          /\ patch_content' = fix_patch_content(f_read(text[patch_file]))
          /\ log' = Append(log, Event("read", patch_file, "-", "ok"))
          /\ pc' = "write"
          /\ UNCHANGED <<exc, i>>
       \/ /\ ~Decodable(text[patch_file])
          /\ log' = Append(log, Event("read", patch_file, "-", "UnicodeDecodeError"))
          /\ i' = i + 1
          /\ pc' = "for"
          /\ UNCHANGED <<patch_content, exc>>
       \/ /\ log' = Append(log, Event("read", patch_file, "-", "OSError"))
          /\ i' = i + 1
          /\ pc' = "for"
          /\ UNCHANGED <<patch_content, exc>>
    /\ UNCHANGED <<dir_exists, disk, text, scratch_text, running, patch_files,
                   temp_patch, result, rc, fx_vars>>

\* mutant: the text read is not passed through fix_patch_content
ReadRaw ==
    /\ pc = "read"
    /\ \/ /\ Decodable(text[patch_file])
          /\ patch_content' = f_read(text[patch_file])
          /\ log' = Append(log, Event("read", patch_file, "-", "ok"))
          /\ pc' = "write"
          /\ exc' = exc
       \/ /\ ~Decodable(text[patch_file])
          /\ log' = Append(log, Event("read", patch_file, "-", "UnicodeDecodeError"))
          /\ Raise("UnicodeDecodeError")
          /\ patch_content' = patch_content
       \/ /\ log' = Append(log, Event("read", patch_file, "-", "OSError"))
          /\ Raise("Exception")
          /\ patch_content' = patch_content
    /\ UNCHANGED <<dir_exists, disk, text, scratch_text, running, patch_files,
                   i, temp_patch, result, rc, fx_vars>>

\* open(patch_file) ... fix_patch_content(f.read())
Read ==
    /\ pc = "read"
    /\ \/ \* open() or read() fails
          /\ log' = Append(log, Event("read", patch_file, "-", "OSError"))
          /\ Raise("Exception")
          /\ patch_content' = patch_content
       \/ /\ ~Decodable(text[patch_file])
          /\ log' = Append(log, Event("read", patch_file, "-", "UnicodeDecodeError"))
          /\ Raise("UnicodeDecodeError")
          /\ patch_content' = patch_content
       \/ /\ Decodable(text[patch_file])
          /\ patch_content' = fix_patch_content(f_read(text[patch_file]))
          /\ log' = Append(log, Event("read", patch_file, "-", "ok"))
          /\ pc' = "write"
          /\ exc' = exc
    /\ UNCHANGED <<dir_exists, disk, text, scratch_text, running, patch_files,
                   i, temp_patch, result, rc, fx_vars>>

\* temp_patch = patch_file.with_suffix('.tmp'); open(temp_patch, 'w') ... write
WriteScratch ==
    /\ pc = "write"
    /\ temp_patch' = patch_file
    /\ \/ /\ disk' = disk \cup {<<patch_file, "tmp">>}
          /\ scratch_text' = [scratch_text EXCEPT ![patch_file] = patch_content]
          /\ log' = Append(log, Event("write", patch_file, "-", "ok"))
          /\ pc' = "primary"
          /\ exc' = exc
       \/ \* open() fails: no file is created
          /\ log' = Append(log, Event("write", patch_file, "-", "OSError(open)"))
          /\ Raise("Exception")
          /\ UNCHANGED <<disk, scratch_text>>
       \/ \* write() fails: the file exists and holds part of the text
          /\ \E n \in {0, Len(patch_content) \div 2} :
                scratch_text' =
                    [scratch_text EXCEPT ![patch_file] = SubSeq(patch_content, 1, n)]
          /\ disk' = disk \cup {<<patch_file, "tmp">>}
          /\ log' = Append(log, Event("write", patch_file, "-", "OSError(write)"))
          /\ Raise("Exception")
    /\ UNCHANGED <<dir_exists, text, running, patch_files, i, patch_content,
                   result, rc, fx_vars>>

\* subprocess.run, first half: the git process is started
Spawn(mode, waiting) ==
    /\ \/ /\ running' = running \cup {<<temp_patch, mode>>}
          /\ log' = Append(log, Event("spawn", temp_patch, mode, "ok"))
          /\ pc' = waiting
          /\ exc' = exc
       \/ \* git cannot be started
          /\ log' = Append(log, Event("spawn", temp_patch, mode, "OSError"))
          /\ Raise("Exception")
          /\ running' = running
    /\ UNCHANGED <<dir_exists, disk, text, scratch_text, patch_files, i,
                   patch_content, temp_patch, result, rc, fx_vars>>

\* subprocess.run, second half: the process ends, its output is decoded
\* (text=True) and the CompletedProcess is bound to result
Wait(mode, onSuccess, onFailure) ==
    /\ running' = running \ {<<temp_patch, mode>>}
    /\ \/ /\ result' = 0
          /\ log' = Append(log, Event("apply", temp_patch, mode, "0"))
          /\ pc' = onSuccess
          /\ exc' = exc
       \/ /\ result' = 1
          /\ log' = Append(log, Event("apply", temp_patch, mode, "1"))
          /\ pc' = onFailure
          /\ exc' = exc
       \/ \* the captured output is not text in the locale's encoding
          /\ log' = Append(log, Event("apply", temp_patch, mode, "UnicodeDecodeError"))
          /\ Raise("UnicodeDecodeError")
          /\ result' = result
    /\ UNCHANGED <<dir_exists, disk, text, scratch_text, patch_files, i,
                   patch_content, temp_patch, rc, fx_vars>>

PrimarySpawn ==
    /\ pc = "primary"
    /\ Spawn(PRIMARY, "primary_wait")

\* mutant: the fallback is tried whatever the primary invocation returned
PrimaryWaitAlwaysFallback ==
    /\ pc = "primary_wait"
    /\ Wait(PRIMARY, "fallback", "fallback")

\* ... and "if result.returncode != 0" of line 53
PrimaryWait ==
    /\ pc = "primary_wait"
    /\ Wait(PRIMARY, "check", "fallback")

FallbackSpawn ==
    /\ pc = "fallback"
    /\ Spawn(FALLBACK, "fallback_wait")

\* mutant: the outcome of the fallback is not the one tested afterwards
FallbackWaitKeepsPrimary ==
    /\ pc = "fallback_wait"
    /\ Wait(FALLBACK, "fail_unlink", "check")

FallbackWait ==
    /\ pc = "fallback_wait"
    /\ Wait(FALLBACK, "check", "check")

\* "if result.returncode != 0" of line 58, and the two prints
CheckResult ==
    /\ pc = "check"
    /\ pc' = IF result # 0 THEN "fail_unlink" ELSE "unlink"
    /\ UNCHANGED <<dir_exists, disk, text, scratch_text, running, patch_files,
                   i, patch_content, temp_patch, result, exc, rc, log, fx_vars>>

\* mutant: after the cleanup the loop goes on with the next artifact
FailUnlinkContinue ==
    /\ pc = "fail_unlink"
    /\ disk' = disk \ {<<temp_patch, "tmp">>}
    /\ log' = Append(log, Event("unlink", temp_patch, "-", "ok"))
    /\ i' = i + 1
    /\ pc' = "for"
    /\ UNCHANGED <<dir_exists, text, scratch_text, running, patch_files,
                   patch_content, temp_patch, result, exc, rc, fx_vars>>

\* "if temp_patch.exists(): temp_patch.unlink()" then "return 1"
FailUnlink ==
    /\ pc = "fail_unlink"
    /\ IF <<temp_patch, "tmp">> \in disk
       THEN \/ /\ disk' = disk \ {<<temp_patch, "tmp">>}
               /\ log' = Append(log, Event("unlink", temp_patch, "-", "ok"))
               /\ Return(1)
               /\ exc' = exc
            \/ /\ log' = Append(log, Event("unlink", temp_patch, "-", "OSError"))
               /\ Raise("Exception")
               /\ UNCHANGED <<disk, rc>>
       ELSE /\ Return(1)
            /\ UNCHANGED <<disk, log, exc>>
    /\ UNCHANGED <<dir_exists, text, scratch_text, running, patch_files, i,
                   patch_content, temp_patch, result, fx_vars>>

\* mutant: the loop stays on the artifact it has just applied
UnlinkStays ==
    /\ pc = "unlink"
    /\ disk' = disk \ {<<temp_patch, "tmp">>}
    /\ log' = Append(log, Event("unlink", temp_patch, "-", "ok"))
    /\ pc' = "for"
    /\ UNCHANGED <<dir_exists, text, scratch_text, running, patch_files, i,
                   patch_content, temp_patch, result, exc, rc, fx_vars>>

\* mutant: the artifact after the one just applied is passed over
UnlinkSkipsNext ==
    /\ pc = "unlink"
    /\ disk' = disk \ {<<temp_patch, "tmp">>}
    /\ log' = Append(log, Event("unlink", temp_patch, "-", "ok"))
    /\ i' = i + 2
    /\ pc' = "for"
    /\ UNCHANGED <<dir_exists, text, scratch_text, running, patch_files,
                   patch_content, temp_patch, result, exc, rc, fx_vars>>

\* "temp_patch.unlink()" of line 65, the print, and on to the next artifact
Unlink ==
    /\ pc = "unlink"
    /\ \/ /\ disk' = disk \ {<<temp_patch, "tmp">>}
          /\ log' = Append(log, Event("unlink", temp_patch, "-", "ok"))
          /\ i' = i + 1
          /\ pc' = "for"
          /\ exc' = exc
       \/ /\ log' = Append(log, Event("unlink", temp_patch, "-", "OSError"))
          /\ Raise("Exception")
          /\ UNCHANGED <<disk, i>>
    /\ UNCHANGED <<dir_exists, text, scratch_text, running, patch_files,
                   patch_content, temp_patch, result, rc, fx_vars>>

\* mutant: a decoding error is reported and the batch still succeeds
ExceptUnicodeDecodeErrorIgnored ==
    /\ pc = "except"
    /\ exc = "UnicodeDecodeError"
    /\ Return(0)
    /\ UNCHANGED <<dir_exists, disk, text, scratch_text, running, patch_files,
                   i, patch_content, temp_patch, result, exc, log, fx_vars>>

\* except UnicodeDecodeError: print, return 1
ExceptUnicodeDecodeError ==
    /\ pc = "except"
    /\ exc = "UnicodeDecodeError"
    /\ Return(1)
    /\ UNCHANGED <<dir_exists, disk, text, scratch_text, running, patch_files,
                   i, patch_content, temp_patch, result, exc, log, fx_vars>>

\* except Exception: print, remove temp_patch if it is bound and exists,
\* return 1; an error raised by that unlink leaves apply_patches
ExceptException ==
    /\ pc = "except"
    /\ exc = "Exception"
    /\ IF temp_patch # 0 /\ <<temp_patch, "tmp">> \in disk
       THEN \/ /\ disk' = disk \ {<<temp_patch, "tmp">>}
               /\ log' = Append(log, Event("unlink", temp_patch, "-", "ok"))
               /\ Return(1)
            \/ /\ log' = Append(log, Event("unlink", temp_patch, "-", "OSError"))
               /\ pc' = "raised"
               /\ UNCHANGED <<disk, rc>>
       ELSE /\ Return(1)
            /\ UNCHANGED <<disk, log>>
    /\ UNCHANGED <<dir_exists, text, scratch_text, running, patch_files, i,
                   patch_content, temp_patch, result, exc, fx_vars>>

\* ------------------------------------------------------------ specifications
Init == BatchInit /\ FxIdle

Next ==
    \/ CheckDir
    \/ Glob
    \/ ForNext
    \/ Read
    \/ WriteScratch
    \/ PrimarySpawn
    \/ PrimaryWait
    \/ FallbackSpawn
    \/ FallbackWait
    \/ CheckResult
    \/ FailUnlink
    \/ Unlink
    \/ ExceptUnicodeDecodeError
    \/ ExceptException

Spec == Init /\ [][Next]_vars

\* apply_patches is a sequential program and every call it makes returns:
\* whenever a step is possible, a step is taken
FairSpec == Spec /\ WF_vars(Next)

InitFix ==
    /\ BatchIdle
    /\ fx_pc = "call"
    /\ fx_content \in Texts
    /\ fx_lines = <<>>
    /\ fx_header_lines = <<>>
    /\ fx_diff_lines = <<>>
    /\ fx_result = <<>>
    /\ fx_normalized = <<>>
    /\ fx_second = <<>>

NextFix ==
    \/ FxCall
    \/ FxCallAgain

SpecFix == InitFix /\ [][NextFix]_vars

\* ------------------------------------------------------------------ helpers
Terminated == pc \in {"done", "raised"}

Scratch(s) == <<s, "tmp">> \in disk

\* position of an artifact in the sorted list
Position(f) == CHOOSE k \in 1..Len(patch_files) : patch_files[k] = f

Errors == {"UnicodeDecodeError", "OSError", "OSError(open)", "OSError(write)"}

\* the j-th operation is a failed fallback invocation (the primary one
\* failed before it, or the fallback would not have been made)
BothFailedAt(j) == log[j] = Event("apply", log[j].file, FALLBACK, "1")

FallbackSucceededAt(j) == log[j] = Event("apply", log[j].file, FALLBACK, "0")

ReadFailedAt(j) == log[j].op = "read" /\ log[j].res # "ok"

\* the artifact has a successful apply invocation
Applied(f) == \E j \in DOMAIN log : log[j].op = "apply" /\ log[j].file = f /\ log[j].res = "0"

AllApplied == \A k \in DOMAIN patch_files : Applied(patch_files[k])

IsHeaderLine(l) ==
    startswith(l, <<"-", "-", "-">>) \/ startswith(l, <<"+", "+", "+">>)

IsHunkLine(l) == startswith(l, <<"@", "@">>)

\* index of the first line beginning with '@@', Len + 1 when there is none
FirstHunk(ls) ==
    IF \E k \in DOMAIN ls : IsHunkLine(ls[k])
    THEN CHOOSE k \in DOMAIN ls :
            IsHunkLine(ls[k]) /\ \A m \in 1..(k - 1) : ~IsHunkLine(ls[m])
    ELSE Len(ls) + 1

\* ------------------------------------------------------------------- claims

\* C1: when apply_patches has returned, whatever way the processing of each
\* artifact ended, no scratch file <stem>.tmp is left in the directory.
C1_NoScratchWhenReturned ==
    pc = "done" => \A s \in Stems : ~Scratch(s)

\* C2: once the fallback invocation of an artifact has failed (after its
\* primary invocation failed), nothing but the removal of that artifact's
\* scratch file happens any more: no later artifact is read, written or
\* applied, no git process runs, and the batch never reports success.
C2_FailFast ==
    \A j \in DOMAIN log :
        BothFailedAt(j) =>
            /\ \E k \in 1..(j - 1) : log[k] = Event("apply", log[j].file, PRIMARY, "1")
            /\ \A m \in (j + 1)..Len(log) :
                    log[m].op = "unlink" /\ log[m].file = log[j].file
            /\ pc \in {"check", "fail_unlink", "except", "done", "raised"}
            /\ i = Position(log[j].file)
            /\ running = {}
            /\ rc # 0
            /\ (pc = "done" => rc = 1)

C2_Witness ==
    /\ pc = "done"
    /\ \E j \in DOMAIN log :
          BothFailedAt(j) /\ Position(log[j].file) < Len(patch_files)

\* C3 as stated: after a fallback success the scratch file of the artifact
\* is deleted once its processing is over, and a batch in which every
\* artifact was applied ends with success.
C3_FallbackSuccessAsStated ==
    \A j \in DOMAIN log :
        FallbackSucceededAt(j) =>
            /\ (Terminated \/ i # Position(log[j].file)) => ~Scratch(log[j].file)
            /\ (Terminated /\ AllApplied) => (pc = "done" /\ rc = 0)

\* C3 amended: after a fallback success the next operation is the deletion
\* of the artifact's scratch file; when the deletion succeeds the file is
\* gone and the next operation, if any, is the read of the next artifact of
\* the sorted list; when it raises, the batch does not report success; and
\* a batch that returns with every artifact applied and every deletion
\* successful returns success.
C3_FallbackSuccess ==
    \A j \in DOMAIN log :
        FallbackSucceededAt(j) =>
            LET f == log[j].file
                p == Position(f)
            IN  /\ j < Len(log) =>
                      /\ log[j + 1].op = "unlink" /\ log[j + 1].file = f
                      /\ log[j + 1].res = "ok" =>
                            /\ ~Scratch(f)
                            /\ i > p
                            /\ j + 1 < Len(log) =>
                                  /\ p < Len(patch_files)
                                  /\ log[j + 2].op = "read"
                                  /\ log[j + 2].file = patch_files[p + 1]
                      /\ log[j + 1].res # "ok" => (i = p /\ rc # 0)
                /\ ( /\ pc = "done"
                     /\ AllApplied
                     /\ \A m \in DOMAIN log : log[m].op = "unlink" => log[m].res = "ok" )
                   => rc = 0

C3_Witness ==
    /\ pc = "done"
    /\ rc = 0
    /\ \E j \in DOMAIN log :
          FallbackSucceededAt(j) /\ Position(log[j].file) < Len(patch_files)

\* C4 as stated: the batch returns failure exactly when the directory is
\* missing or some artifact failed both strategies.
C4_OutcomeAsStated ==
    pc = "done" =>
        (rc = 1 <=> (~dir_exists \/ \E j \in DOMAIN log : BothFailedAt(j)))

\* C4 amended: the batch returns failure exactly when the directory is
\* missing, some artifact failed both strategies, or an error was raised
\* while an artifact was processed; otherwise it returns success.
C4_Outcome ==
    pc = "done" =>
        /\ rc \in {0, 1}
        /\ rc = 1 <=> \/ ~dir_exists
                      \/ \E j \in DOMAIN log : BothFailedAt(j)
                      \/ \E j \in DOMAIN log : log[j].res \in Errors

C4_Witness ==
    /\ pc = "done"
    /\ rc = 1
    /\ dir_exists
    /\ ~ \E j \in DOMAIN log : BothFailedAt(j)

\* C5: the list is in ascending order of name; the operations on artifacts
\* occur in list order, an artifact is touched only after its predecessor
\* was applied and its scratch file deleted; a scratch file on disk belongs
\* to the artifact being processed; at most one git process runs at a time.
C5_Sequential ==
    /\ \A k \in 1..(Len(patch_files) - 1) : patch_files[k] < patch_files[k + 1]
    /\ Cardinality(running) <= 1
    /\ \A r \in running : i \in DOMAIN patch_files /\ r[1] = patch_files[i]
    /\ \A s \in Stems : Scratch(s) => (i \in DOMAIN patch_files /\ s = patch_files[i])
    /\ \A m \in DOMAIN log :
          log[m].op # "glob" =>
              LET q == Position(log[m].file)
              IN  /\ \A j \in 1..(m - 1) :
                        log[j].op # "glob" => Position(log[j].file) <= q
                  /\ q > 1 =>
                        \E a \in 1..(m - 1) : \E u \in (a + 1)..(m - 1) :
                            /\ log[a].op = "apply"
                            /\ log[a].file = patch_files[q - 1]
                            /\ log[a].res = "0"
                            /\ log[u] = Event("unlink", patch_files[q - 1], "-", "ok")

C5_Witness ==
    /\ pc = "fallback_wait"
    /\ i = 2
    /\ running # {}

\* C6: a read that fails (decoding or I/O) is the last operation of the
\* batch: the artifact is never written to a scratch file nor applied, no
\* scratch file of it exists, and the batch returns failure.
C6_ReadFailureAborts ==
    \A j \in DOMAIN log :
        ReadFailedAt(j) =>
            /\ j = Len(log)
            /\ \A m \in DOMAIN log : log[m].file = log[j].file => m = j
            /\ ~Scratch(log[j].file)
            /\ running = {}
            /\ i = Position(log[j].file)
            /\ pc \in {"except", "done"}
            /\ rc # 0
            /\ (pc = "done" => rc = 1)

C6_Witness ==
    /\ pc = "done"
    /\ \E j \in DOMAIN log :
          /\ ReadFailedAt(j)
          /\ Position(log[j].file) > 1
          /\ Position(log[j].file) < Len(patch_files)

\* C7: with an existing directory that holds no patch file the batch
\* returns success, git is never started and no scratch file is created.
C7_NoPatchFiles ==
    (dir_exists /\ \A s \in Stems : <<s, "patch">> \notin disk) =>
        /\ \A j \in DOMAIN log : log[j].op = "glob"
        /\ \A s \in Stems : ~Scratch(s)
        /\ running = {}
        /\ pc \in {"start", "glob", "done"}
        /\ (pc = "done" => rc = 0)

C7_Witness ==
    /\ dir_exists
    /\ \A s \in Stems : <<s, "patch">> \notin disk
    /\ disk # {}
    /\ pc = "done"

\* C8: with a missing directory the batch returns failure without listing
\* the directory, reading an artifact or starting git.
C8_MissingDirectory ==
    ~dir_exists =>
        /\ log = <<>>
        /\ patch_files = <<>>
        /\ running = {}
        /\ pc \in {"start", "done"}
        /\ (pc = "done" => rc = 1)

C8_Witness == ~dir_exists /\ pc = "done"

\* C9: the body sequence is exactly the input lines from the first '@@'
\* line on, in input order, and the header sequence is exactly the
\* '---'/'+++' lines before that line.
C9_BodyAfterFirstHunk ==
    fx_pc = "return" =>
        LET h == FirstHunk(fx_lines)
        IN  /\ fx_diff_lines = SubSeq(fx_lines, h, Len(fx_lines))
            /\ fx_header_lines = SelectSeq(SubSeq(fx_lines, 1, h - 1), IsHeaderLine)

C9_Witness ==
    /\ fx_pc = "return"
    /\ \E k \in DOMAIN fx_lines :
          k > FirstHunk(fx_lines) /\ IsHeaderLine(fx_lines[k])

\* C10: the lines of the output are the '---'/'+++' lines before the first
\* '@@' line followed by the lines from that line on, so that any other
\* line before it is absent; without a '@@' line there is no body and the
\* output holds header lines only.
C10_LeadingLinesDropped ==
    fx_pc = "return" =>
        LET h == FirstHunk(fx_lines)
            kept == SelectSeq(SubSeq(fx_lines, 1, h - 1), IsHeaderLine)
            out == kept \o SubSeq(fx_lines, h, Len(fx_lines))
        IN  /\ out # <<>> => splitlines(fx_result) = out
            /\ out = <<>> => fx_result = <<LF>>
            /\ h > Len(fx_lines) =>
                  /\ fx_diff_lines = <<>>
                  /\ \A k \in DOMAIN out : IsHeaderLine(out[k])

C10_Witness ==
    /\ fx_pc = "return"
    /\ FirstHunk(fx_lines) > Len(fx_lines)
    /\ fx_header_lines # <<>>
    /\ \E k \in DOMAIN fx_lines : ~IsHeaderLine(fx_lines[k])

\* ------------------------------------------- helpers for the claims on texts
\* number of consecutive elements equal to x at the end of a sequence
TrailingCount(q, x) ==
    CHOOSE n \in 0..Len(q) :
        /\ \A k \in (Len(q) - n + 1)..Len(q) : q[k] = x
        /\ n < Len(q) => q[Len(q) - n] # x

\* a is b with some elements deleted
RECURSIVE IsSubseq(_, _)
IsSubseq(a, b) ==
    IF a = <<>> THEN TRUE
    ELSE IF b = <<>> THEN FALSE
    ELSE IF Head(a) = Head(b) THEN IsSubseq(Tail(a), Tail(b))
    ELSE IsSubseq(a, Tail(b))

\* the positions of a text that are not the CR of a CR LF pair
KeptPositions(t) ==
    { k \in 1..Len(t) : ~(t[k] = CR /\ k < Len(t) /\ t[k + 1] = LF) }

Returned == fx_pc \in {"return", "return2"}

\* C11 as stated: the output ends with exactly one LF.
C11_OneTrailingLFAsStated ==
    Returned => TrailingCount(fx_result, LF) = 1

\* C11 amended: the output is never empty and ends with LF; it ends with
\* one LF more than the number of blank lines that end the body, hence with
\* exactly one LF when the body does not end in a blank line.
C11_TrailingLF ==
    Returned =>
        /\ fx_result # <<>>
        /\ fx_result[Len(fx_result)] = LF
        /\ TrailingCount(fx_result, LF) = 1 + TrailingCount(fx_diff_lines, <<>>)
        /\ \A k \in DOMAIN fx_header_lines : fx_header_lines[k] # <<>>

C11_Witness ==
    /\ fx_pc = "return"
    /\ TrailingCount(fx_diff_lines, <<>>) >= 1
    /\ TrailingCount(fx_result, LF) >= 2

\* C12: when no '---'/'+++' line follows the first '@@' line, the output is
\* all the header lines of the input in input order, then all the lines
\* from the first '@@' line on, joined by LF and followed by one LF.
C12_RoundTrip ==
    (Returned /\ \A k \in DOMAIN fx_lines :
                    IsHeaderLine(fx_lines[k]) => k < FirstHunk(fx_lines))
    => fx_result =
          join(LF, SelectSeq(fx_lines, IsHeaderLine)
                   \o SubSeq(fx_lines, FirstHunk(fx_lines), Len(fx_lines)))
          \o <<LF>>

C12_Witness ==
    /\ fx_pc = "return"
    /\ \A k \in DOMAIN fx_lines :
          IsHeaderLine(fx_lines[k]) => k < FirstHunk(fx_lines)
    /\ fx_header_lines # <<>>
    /\ Len(fx_diff_lines) >= 2

\* C13: the normalised text is the input without the CR of each CR LF pair
\* and with every other CR turned into LF, all other characters unchanged
\* and in order; empty input gives empty output and a text without CR is
\* returned as it is.
C13_Normalisation ==
    Returned =>
        LET keep == KeptPositions(fx_content)
        IN  /\ Len(fx_normalized) = Cardinality(keep)
            /\ \A k \in keep :
                  fx_normalized[Cardinality({m \in keep : m <= k})] =
                      (IF fx_content[k] = CR THEN LF ELSE fx_content[k])
            /\ (\A k \in DOMAIN fx_content : fx_content[k] # CR)
                  => fx_normalized = fx_content
            /\ fx_content = <<>> => fx_normalized = <<>>

C13_Witness ==
    /\ fx_pc = "return"
    /\ \E k \in 1..(Len(fx_content) - 1) :
          fx_content[k] = CR /\ fx_content[k + 1] = LF
    /\ \E k \in DOMAIN fx_content :
          fx_content[k] = CR /\ k \in KeptPositions(fx_content)

\* C19: a second call on the output of the first returns the same text.
C19_Idempotent ==
    fx_pc = "return2" => fx_second = fx_result

C19_Witness ==
    /\ fx_pc = "return2"
    /\ fx_result # fx_content
    /\ TrailingCount(fx_diff_lines, <<>>) >= 1
    /\ fx_header_lines # <<>>

\* C20 as stated: the lines of the output are a subsequence of the lines of
\* the input.
C20_SubsequenceAsStated ==
    Returned => IsSubseq(splitlines(fx_result), splitlines(fx_content))

\* C20 amended: when at least one line is kept, the lines of the output are
\* a subsequence of the lines of the input; when none is kept the output is
\* the single LF, one empty line.
C20_Subsequence ==
    Returned =>
        IF fx_header_lines \o fx_diff_lines # <<>>
        THEN /\ IsSubseq(splitlines(fx_result), splitlines(fx_content))
             /\ splitlines(fx_result) = fx_header_lines \o fx_diff_lines
        ELSE /\ fx_result = <<LF>>
             /\ splitlines(fx_result) = << <<>> >>

C20_Witness ==
    /\ fx_pc = "return"
    /\ fx_header_lines # <<>>
    /\ fx_diff_lines # <<>>
    /\ Len(fx_header_lines) + Len(fx_diff_lines) < Len(splitlines(fx_content))

\* ------------------------------------- helpers for the claims on invocations
\* positions in the log of the invocations of a mode made for an artifact
Invocations(f, mode) ==
    { j \in DOMAIN log :
        log[j].op = "spawn" /\ log[j].file = f /\ log[j].mode = mode }

SpawnCount == Cardinality({ j \in DOMAIN log : log[j].op = "spawn" })

\* the canonical text of an artifact
Canonical(f) == fix_patch_content(f_read(text[f]))

IsSuccess(e) == e.op = "apply" /\ e.res = "0"

\* the artifacts with a successful apply invocation, in the order of these
\* invocations
SuccessFiles ==
    LET ok == SelectSeq(log, IsSuccess)
    IN  [k \in DOMAIN ok |-> ok[k].file]

\* the operation that may follow operation e of the log
MayFollow(e, n) ==
    IF e.op = "glob" THEN n.op = "read" /\ n.file = patch_files[1]
    ELSE IF e.op = "unlink" /\ e.res = "ok"
         THEN /\ n.op = "read"
              /\ Position(e.file) < Len(patch_files)
              /\ n.file = patch_files[Position(e.file) + 1]
    ELSE /\ n.file = e.file
         /\ CASE e.op = "read" -> e.res = "ok" /\ n.op = "write"
              [] e.op = "write" ->
                    \/ e.res = "ok" /\ n.op = "spawn" /\ n.mode = PRIMARY
                    \/ e.res = "OSError(write)" /\ n.op = "unlink"
              [] e.op = "spawn" ->
                    \/ e.res = "ok" /\ n.op = "apply" /\ n.mode = e.mode
                    \/ e.res = "OSError" /\ n.op = "unlink"
              [] e.op = "apply" ->
                    \/ e.res = "0" /\ n.op = "unlink"
                    \/ e.res = "1" /\ e.mode = PRIMARY
                          /\ n.op = "spawn" /\ n.mode = FALLBACK
                    \/ e.res = "1" /\ e.mode = FALLBACK /\ n.op = "unlink"
              [] e.op = "unlink" -> n.op = "unlink"
              [] OTHER -> FALSE

\* C14: per artifact at most one primary and at most one fallback
\* invocation are made; the primary one comes first and directly follows
\* the writing of the scratch file; a fallback invocation directly follows
\* the failure of the primary invocation of the same artifact and never a
\* primary success; the scratch file is the same from the primary
\* invocation to the end of the fallback.
C14_InvocationOrder ==
    /\ \A f \in Stems :
          /\ Cardinality(Invocations(f, PRIMARY)) <= 1
          /\ Cardinality(Invocations(f, FALLBACK)) <= 1
          /\ \A j \in DOMAIN log :
                (log[j].file = f /\ log[j].op \in {"spawn", "apply"}) =>
                    \E p \in Invocations(f, PRIMARY) : p <= j
          /\ \A j \in Invocations(f, PRIMARY) :
                log[j - 1] = Event("write", f, "-", "ok")
          /\ \A j \in DOMAIN log :
                (log[j] = Event("write", f, "-", "ok") /\ j < Len(log)) =>
                    j + 1 \in Invocations(f, PRIMARY)
          /\ \A j \in Invocations(f, FALLBACK) :
                /\ log[j - 1] = Event("apply", f, PRIMARY, "1")
                /\ \A k \in DOMAIN log : log[k] # Event("apply", f, PRIMARY, "0")
          /\ \A j \in DOMAIN log :
                log[j] = Event("apply", f, PRIMARY, "0") =>
                    Invocations(f, FALLBACK) = {}
    /\ pc \in {"primary", "primary_wait", "fallback", "fallback_wait", "check"} =>
          /\ temp_patch = patch_files[i]
          /\ Scratch(temp_patch)
          /\ scratch_text[temp_patch] = patch_content

C14_Witness ==
    /\ pc = "check"
    /\ i = 2
    /\ Invocations(patch_files[i], FALLBACK) # {}
    /\ Cardinality(Invocations(patch_files[1], PRIMARY)) = 1
    /\ Invocations(patch_files[1], FALLBACK) = {}

\* C15: the operations follow one another in the order read, write of the
\* scratch file, primary invocation, fallback invocation after a primary
\* failure, deletion; an artifact the loop has left went through all of
\* them; at most one scratch file exists, that of the artifact being
\* processed; while git is about to run or running, the scratch file exists
\* and holds the canonical text of the artifact.
C15_StateOrder ==
    /\ \A j \in 1..(Len(log) - 1) : MayFollow(log[j], log[j + 1])
    /\ \A k \in DOMAIN patch_files :
          k < i =>
              LET f == patch_files[k]
              IN  /\ \E j \in DOMAIN log : log[j] = Event("read", f, "-", "ok")
                  /\ \E j \in DOMAIN log : log[j] = Event("write", f, "-", "ok")
                  /\ Invocations(f, PRIMARY) # {}
                  /\ Applied(f)
                  /\ \E j \in DOMAIN log : log[j] = Event("unlink", f, "-", "ok")
    /\ Cardinality({ s \in Stems : Scratch(s) }) <= 1
    /\ \A s \in Stems : Scratch(s) => (i \in DOMAIN patch_files /\ s = patch_files[i])
    /\ (running # {} \/ pc \in {"primary", "fallback"}) =>
          /\ Scratch(patch_files[i])
          /\ scratch_text[patch_files[i]] = Canonical(patch_files[i])
          /\ \A r \in running : r[1] = patch_files[i]

C15_Witness ==
    /\ pc = "fallback_wait"
    /\ running # {}
    /\ i = 2
    /\ text[patch_files[i]] = SampleCRLF
    /\ scratch_text[patch_files[i]] # f_read(text[patch_files[i]])

\* C16: whenever the batch has ended after a fatal condition (an error
\* raised while an artifact was processed, or both strategies failing), it
\* has ended by apply_patches returning 1, and no partially written scratch
\* file is left.
C16_FatalReturnsFailure ==
    ( /\ Terminated
      /\ \/ \E j \in DOMAIN log : log[j].res \in Errors
         \/ \E j \in DOMAIN log : BothFailedAt(j) )
    => /\ pc = "done"
       /\ rc = 1
       /\ \A s \in Stems : Scratch(s) => scratch_text[s] = Canonical(s)

\* C17: the batch ends; at most two invocations per listed artifact are
\* made; the loop never goes back to an earlier artifact.
C17_Terminates ==
    /\ <>Terminated
    /\ [][ /\ i' >= i
           /\ SpawnCount' <= 2 * Len(patch_files') ]_vars

C17_Witness ==
    /\ pc = "done"
    /\ Len(patch_files) >= 2
    /\ SpawnCount = 2 * Len(patch_files)

\* C18 as stated: a batch that returns success applied every listed
\* artifact exactly once, in list order; a batch that returns failure at
\* artifact k applied exactly the artifacts before k.
C18_SoundnessAsStated ==
    /\ (pc = "done" /\ rc = 0 /\ patch_files # <<>>) => SuccessFiles = patch_files
    /\ (pc = "done" /\ rc = 1 /\ i \in DOMAIN patch_files) =>
          SuccessFiles = SubSeq(patch_files, 1, i - 1)

\* C18 amended: a batch that returns success applied every listed artifact
\* exactly once, in list order; a batch that fails at artifact k applied
\* the artifacts before k, each once and in list order, none after k, and k
\* itself only when the failure is an error raised on deleting the scratch
\* file of k after its successful apply.
C18_Soundness ==
    /\ (pc = "done" /\ rc = 0 /\ patch_files # <<>>) => SuccessFiles = patch_files
    /\ (Terminated /\ rc # 0 /\ i \in DOMAIN patch_files) =>
          /\ SuccessFiles =
                SubSeq(patch_files, 1, i - 1)
                \o (IF Applied(patch_files[i]) THEN <<patch_files[i]>> ELSE <<>>)
          /\ Applied(patch_files[i]) =>
                \E j \in DOMAIN log :
                    log[j] = Event("unlink", patch_files[i], "-", "OSError")

C18_Witness ==
    /\ pc = "done"
    /\ rc = 1
    /\ i = 2
    /\ Len(patch_files) > 2
    /\ SuccessFiles = <<patch_files[1]>>

====
